---- MODULE Spec2Model ----
(***************************************************************************)
(* Planogram store (zustand) of Mikson1993/planogram: modules, products,  *)
(* the tabular records (excelData) and the reducers that keep them in     *)
(* step, together with the layout engine recalculateLayout and the        *)
(* spreadsheet row expansion of parseExcelFile.                           *)
(*                                                                         *)
(* Numbers: positions are kept in hundredths (2.1 is 210), so that        *)
(* Math.floor and the decimal part are exact; widths and heights are      *)
(* whole millimetres.  An item code `${ean}_${k}` is the pair <<ean, k>>, *)
(* the unsuffixed code is <<ean, 0>>, a missing code is NoEan.            *)
(***************************************************************************)
EXTENDS Integers, Sequences, FiniteSets, TLC

VARIABLES modules, excelData, selectedModule, selectedProduct, dragMode,
          nextId, file, op, steps, upload

vars == <<modules, excelData, selectedModule, selectedProduct, dragMode,
          nextId, file, op, steps, upload>>

----------------------------------------------------------------------------
(* Bounds *)

MaxProducts == 3
MaxQuantity == 3
MaxSteps == 7

----------------------------------------------------------------------------
(* Values *)

PosScale == 100

NoEan == <<"", 0>>
NoId == 0
Undef == 0 - 1
NoModule == "none"

ModuleIds == {"module-1", "module-2"}

\* moduleId.replace('module-', '')
moduleNumber(moduleId) ==
    CASE moduleId = "module-1" -> "1"
      [] moduleId = "module-2" -> "2"
      [] OTHER -> moduleId

\* `module-${productData.module}`
moduleIdOf(number) ==
    CASE number = "1" -> "module-1"
      [] number = "2" -> "module-2"
      [] OTHER -> number

\* JavaScript truthiness of a number / of an item code
Truthy(n) == n > 0
OrElse(a, b) == IF Truthy(a) THEN a ELSE b
HasEan(e) == e # NoEan
EanOr(a, b) == IF HasEan(a) THEN a ELSE b
\* ean.includes('_')
HasSuffix(e) == e[2] > 0

Floor(position) == position \div PosScale
Decimal(position) == position % PosScale

Max2(a, b) == IF a >= b THEN a ELSE b
MinOf(S) == CHOOSE m \in S : \A n \in S : m <= n
MaxOf(S) == CHOOSE m \in S : \A n \in S : m >= n

\* Array.prototype.findIndex, 1-based, 0 when nothing matches
FindIndex(seq, Test(_)) ==
    LET hits == {i \in 1..Len(seq) : Test(seq[i])}
    IN IF hits = {} THEN 0 ELSE MinOf(hits)

RECURSIVE SeqSum(_)
SeqSum(s) == IF s = <<>> THEN 0 ELSE Head(s) + SeqSum(Tail(s))

RECURSIVE SortedKeys(_)
SortedKeys(S) ==
    IF S = {} THEN <<>>
    ELSE LET m == MinOf(S) IN <<m>> \o SortedKeys(S \ {m})

\* Array.prototype.splice(index, 1) and splice(index, 0, item), 1-based
RemoveAt(seq, i) == SubSeq(seq, 1, i - 1) \o SubSeq(seq, i + 1, Len(seq))
InsertAt(seq, i, item) == SubSeq(seq, 1, i - 1) \o <<item>> \o SubSeq(seq, i, Len(seq))

----------------------------------------------------------------------------
(* parseExcelFile: expansion of one spreadsheet row into records *)

\* duplicates of an integer-position row numbered base.1, base.2, ...
duplicatePositionStacked(position, quantity, q) ==
    IF quantity > 1 /\ position > 0
    THEN LET basePosition == Floor(position)
             decimalPart == position - basePosition * PosScale
         IN IF decimalPart = 0
            THEN basePosition * PosScale + (q + 1) * 10
            ELSE position + q
    ELSE position

\* position of the q-th duplicate (q = 0 .. quantity-1)
duplicatePosition(position, quantity, q) ==
    IF quantity > 1 /\ position > 0
    THEN LET basePosition == Floor(position)
             decimalPart == position - basePosition * PosScale
         IN IF decimalPart = 0
            THEN (basePosition + q) * PosScale + 10
            ELSE position + q
    ELSE position

parseRow(row) ==
    IF row.ean # "" /\ row.module # "" /\ row.width > 0
    THEN [q \in 1..row.quantity |->
            [ean |-> <<row.ean, IF row.quantity > 1 THEN q ELSE 0>>,
             originalEan |-> <<row.ean, 0>>,
             module |-> row.module,
             width |-> row.width,
             height |-> row.height,
             depth |-> row.depth,
             position |-> duplicatePosition(row.position, row.quantity, q - 1)]]
    ELSE <<>>

RECURSIVE parseExcelFile(_)
parseExcelFile(rows) ==
    IF rows = <<>> THEN <<>>
    ELSE parseRow(Head(rows)) \o parseExcelFile(Tail(rows))

----------------------------------------------------------------------------
(* recalculateLayout *)

\* the record a product is matched to by the layout engine (0: none)
layoutRecordIndex(product, items) ==
    IF HasSuffix(product.ean)
    THEN FindIndex(items, LAMBDA ep : ep.ean = product.ean)
    ELSE LET originalEAN == EanOr(product.originalEan, product.ean)
         IN FindIndex(items, LAMBDA ep :
                ep.originalEan = originalEAN \/ ep.ean = originalEAN)

\* position: excelProduct?.position || 0
moduleProducts(products, items) ==
    [i \in 1..Len(products) |->
        LET k == layoutRecordIndex(products[i], items)
        IN [products[i] EXCEPT !.position =
                IF k = 0 THEN 0 ELSE OrElse(items[k].position, 0)]]

\* products without a position get autoPosition = 1, 2, ... in array order
RECURSIVE assignPositions(_, _)
assignPositions(ps, autoPosition) ==
    IF ps = <<>> THEN <<>>
    ELSE IF Head(ps).position = 0
         THEN <<[Head(ps) EXCEPT !.position = autoPosition * PosScale]>>
              \o assignPositions(Tail(ps), autoPosition + 1)
         ELSE <<Head(ps)>> \o assignPositions(Tail(ps), autoPosition)

\* groups[groupKey], in encounter order
groupOf(ps, groupKey) == SelectSeq(ps, LAMBDA p : Floor(p.position) = groupKey)
groupKeys(ps) == {Floor(ps[i].position) : i \in 1..Len(ps)}

\* a sort by decimal part that puts the later of two equal members first
RECURSIVE sortByDecimalTiesReversed(_)
sortByDecimalTiesReversed(ps) ==
    IF ps = <<>> THEN <<>>
    ELSE LET n == Len(ps)
             last == ps[n]
             rest == sortByDecimalTiesReversed(SubSeq(ps, 1, n - 1))
             keep == {i \in 1..Len(rest) : Decimal(rest[i].position) < Decimal(last.position)}
             cut == IF keep = {} THEN 0 ELSE MaxOf(keep)
         IN SubSeq(rest, 1, cut) \o <<last>> \o SubSeq(rest, cut + 1, Len(rest))

\* stable sort by decimal part (Array.prototype.sort is stable)
RECURSIVE sortByDecimal(_)
sortByDecimal(ps) ==
    IF ps = <<>> THEN <<>>
    ELSE LET n == Len(ps)
             last == ps[n]
             rest == sortByDecimal(SubSeq(ps, 1, n - 1))
             keep == {i \in 1..Len(rest) : Decimal(rest[i].position) <= Decimal(last.position)}
             cut == IF keep = {} THEN 0 ELSE MaxOf(keep)
         IN SubSeq(rest, 1, cut) \o <<last>> \o SubSeq(rest, cut + 1, Len(rest))

\* a column width that leaves 8 units of spacing to the next column
groupWidthSpaced(ps) == MaxOf({ps[i].scaledWidth : i \in 1..Len(ps)}) + 8

\* Math.max(...sortedGroupProducts.map(p => p.scaledWidth))
groupWidth(ps) == MaxOf({ps[i].scaledWidth : i \in 1..Len(ps)})

\* every member put on the bottom of the module, the stack height ignored
RECURSIVE productsWithYUnstacked(_, _, _, _)
productsWithYUnstacked(ps, stackHeight, currentX, height) ==
    IF ps = <<>> THEN <<>>
    ELSE LET product == Head(ps)
             yPosition == height - product.scaledHeight
         IN <<[product EXCEPT !.x = currentX, !.y = Max2(0, yPosition)]>>
            \o productsWithYUnstacked(Tail(ps), stackHeight + product.scaledHeight,
                                      currentX, height)

\* vertical stacking from the bottom of the module upwards
RECURSIVE productsWithY(_, _, _, _)
productsWithY(ps, stackHeight, currentX, height) ==
    IF ps = <<>> THEN <<>>
    ELSE LET product == Head(ps)
             yPosition == height - stackHeight - product.scaledHeight
         IN <<[product EXCEPT !.x = currentX, !.y = Max2(0, yPosition)]>>
            \o productsWithY(Tail(ps), stackHeight + product.scaledHeight,
                             currentX, height)

\* horizontal placement: every group next to the previous one
RECURSIVE placeGroups(_, _, _, _)
placeGroups(keys, ps, currentX, height) ==
    IF keys = <<>> THEN <<>>
    ELSE LET sortedGroupProducts == sortByDecimal(groupOf(ps, Head(keys)))
         IN productsWithY(sortedGroupProducts, 0, currentX, height)
            \o placeGroups(Tail(keys), ps,
                           currentX + groupWidth(sortedGroupProducts), height)

\* the group keys sorted with (a, b) => b - a
sortedGroupKeysDescending(ps) ==
    LET keys == SortedKeys(groupKeys(ps))
    IN [i \in 1..Len(keys) |-> keys[Len(keys) + 1 - i]]

\* Object.keys(groups).map(Number).sort((a, b) => a - b)
sortedGroupKeys(ps) == SortedKeys(groupKeys(ps))

layoutProducts(module, items) ==
    LET ps == assignPositions(moduleProducts(module.products, items), 1)
    IN placeGroups(sortedGroupKeys(ps), ps, 0, module.height)

hasModule(mods, moduleId) == \E i \in 1..Len(mods) : mods[i].id = moduleId

recalculateLayout(moduleId, mods, data) ==
    IF ~hasModule(mods, moduleId) \/ data.null THEN mods
    ELSE [i \in 1..Len(mods) |->
            IF mods[i].id = moduleId
            THEN [mods[i] EXCEPT !.products = layoutProducts(mods[i], data.items)]
            ELSE mods[i]]

----------------------------------------------------------------------------
(* autoResizeModuleToFitProducts *)

ownGroup(products, groupKey) ==
    SelectSeq(products, LAMBDA p : Floor(OrElse(p.position, 0)) = groupKey)
ownGroupKeys(products) ==
    {Floor(OrElse(products[i].position, 0)) : i \in 1..Len(products)}

maxWidthInGroup(ps) ==
    MaxOf({OrElse(ps[i].realWidth, ps[i].scaledWidth) : i \in 1..Len(ps)})
groupHeight(ps) ==
    16 + SeqSum([i \in 1..Len(ps) |-> OrElse(ps[i].realHeight, ps[i].scaledHeight)]) + 16

autoResizeModuleToFitProducts(products) ==
    IF Len(products) = 0 THEN [width |-> 200, height |-> 150]
    ELSE LET keys == SortedKeys(ownGroupKeys(products))
             totalWidth == 16 + SeqSum([k \in 1..Len(keys) |->
                                maxWidthInGroup(ownGroup(products, keys[k]))]) + 16
             maxHeight == MaxOf({groupHeight(ownGroup(products, keys[k])) : k \in 1..Len(keys)})
         IN [width |-> Max2(totalWidth, 100), height |-> Max2(maxHeight, 50)]

----------------------------------------------------------------------------
(* calculateDepthCapacity *)

\* excelData?.find(...): the record a product's depth is read from (0: none)
depthRecordIndex(product, data) ==
    IF data.null THEN 0
    ELSE FindIndex(data.items, LAMBDA ep :
            ep.ean = product.ean \/ ep.originalEan = product.originalEan
            \/ ep.ean = product.originalEan)

\* excelProduct?.depth || 100
productDepth(product, data) ==
    LET k == depthRecordIndex(product, data)
    IN IF k = 0 THEN 100 ELSE OrElse(data.items[k].depth, 100)

layersOnDepth(module, product, data) ==
    IF productDepth(product, data) > 0 /\ Truthy(module.depth)
    THEN module.depth \div productDepth(product, data)
    ELSE 1

\* the capacity of a column taken as that of its deepest-packed member
largestCapacity(productsInPosition, module, data) ==
    MaxOf({layersOnDepth(module, productsInPosition[i], data) :
            i \in 1..Len(productsInPosition)})

\* totalCapacity += layersOnDepth over the members of the column
totalCapacity(productsInPosition, module, data) ==
    SeqSum([i \in 1..Len(productsInPosition) |->
                layersOnDepth(module, productsInPosition[i], data)])

\* capacities[product.id], for the products of the module
calculateDepthCapacity(module, data) ==
    IF ~Truthy(module.depth) THEN [id \in {} |-> 0]
    ELSE [id \in {module.products[i].id : i \in 1..Len(module.products)} |->
            LET product == module.products[FindIndex(module.products, LAMBDA p : p.id = id)]
                productsInPosition ==
                    ownGroup(module.products, Floor(OrElse(product.position, 0)))
                lefts == {productsInPosition[i].x : i \in 1..Len(productsInPosition)}
                rights == {productsInPosition[i].x + productsInPosition[i].scaledWidth :
                            i \in 1..Len(productsInPosition)}
            IN [capacity |-> totalCapacity(productsInPosition, module, data),
                isVisible |-> productsInPosition[1].id = id,
                x |-> MinOf(lefts),
                width |-> MaxOf(rights) - MinOf(lefts)]]

----------------------------------------------------------------------------
(* Store reducers.  Each takes the committed state s = [modules, excelData, *)
(* selectedModule, selectedProduct, dragMode] and gives the state it        *)
(* commits.                                                                 *)

State == [modules |-> modules, excelData |-> excelData,
          selectedModule |-> selectedModule, selectedProduct |-> selectedProduct,
          dragMode |-> dragMode]

moduleIndex(mods, moduleId) == FindIndex(mods, LAMBDA m : m.id = moduleId)
productIndex(products, productId) == FindIndex(products, LAMBDA p : p.id = productId)
\* the first module that holds the product (0: none)
ownerIndex(mods, productId) ==
    FindIndex(mods, LAMBDA m : productIndex(m.products, productId) # 0)

\* id: the value of generateId()
addModule(s, moduleData, id) ==
    [s EXCEPT !.modules = Append(s.modules,
        [id |-> id, width |-> moduleData.width, height |-> moduleData.height,
         depth |-> moduleData.depth, products |-> <<>>])]

\* a default module appended without looking for an existing one
ensureModuleExistsUnchecked(s, moduleId) ==
    [s EXCEPT !.modules = Append(s.modules,
        [id |-> moduleId, width |-> 200, height |-> 150, depth |-> 300,
         products |-> <<>>])]

ensureModuleExists(s, moduleId) ==
    IF hasModule(s.modules, moduleId) THEN s
    ELSE [s EXCEPT !.modules = Append(s.modules,
            [id |-> moduleId, width |-> 200, height |-> 150, depth |-> 300,
             products |-> <<>>])]

updateModule(s, id, updates) ==
    LET k == moduleIndex(s.modules, id)
        updatedModules == [i \in 1..Len(s.modules) |->
            IF s.modules[i].id = id
            THEN [s.modules[i] EXCEPT
                    !.width = IF updates.width # Undef THEN updates.width ELSE @,
                    !.height = IF updates.height # Undef THEN updates.height ELSE @]
            ELSE s.modules[i]]
        changed == k # 0 /\
                   ((Truthy(updates.width) /\ updates.width # s.modules[k].width) \/
                    (Truthy(updates.height) /\ updates.height # s.modules[k].height))
    IN IF changed
       THEN [s EXCEPT !.modules = recalculateLayout(id, updatedModules, s.excelData)]
       ELSE [s EXCEPT !.modules = updatedModules]

\* the module filtered out, the selection left as it is
removeModuleKeepingSelection(s, id) ==
    [s EXCEPT !.modules = SelectSeq(s.modules, LAMBDA m : m.id # id)]

removeModule(s, id) ==
    [s EXCEPT !.modules = SelectSeq(s.modules, LAMBDA m : m.id # id),
              !.selectedModule = IF s.selectedModule = id THEN NoModule ELSE @]

\* set({modules: config.modules, excelData: config.excelData || null, ...})
importConfig(s, config) ==
    [s EXCEPT !.modules = config.modules, !.excelData = config.excelData]

\* set({...initialState, ..., excelData: null, originalExcelFile: null})
resetPlanogram(s) ==
    [modules |-> <<>>, excelData |-> [null |-> TRUE, items |-> <<>>],
     selectedModule |-> NoModule, selectedProduct |-> NoId, dragMode |-> "swap"]

selectModule(s, id) == [s EXCEPT !.selectedModule = id]
selectProduct(s, id) == [s EXCEPT !.selectedProduct = id]
setDragMode(s, mode) == [s EXCEPT !.dragMode = mode]

\* The reducer calls calculateProductLayoutFromExcel, an identifier the store
\* module neither declares nor imports: evaluating the call throws a
\* ReferenceError inside set(), which then commits nothing.
addProduct(s, moduleId, productData, id) ==
    LET k == moduleIndex(s.modules, moduleId)
    IN IF k = 0 THEN [state |-> s, error |-> "none"]
       ELSE [state |-> s, error |-> "ReferenceError"]

\* the product appended with the moduleId its data came with
addProductFromExcelUnowned(s, moduleId, productData, id) ==
    LET k == moduleIndex(s.modules, moduleId)
    IN IF k = 0 THEN s
       ELSE LET newProduct == [productData EXCEPT !.id = id]
                updatedProducts == Append(s.modules[k].products, newProduct)
                moduleUpdates == autoResizeModuleToFitProducts(updatedProducts)
                updatedModules == [s.modules EXCEPT ![k] =
                    [@ EXCEPT !.width = moduleUpdates.width,
                              !.height = moduleUpdates.height,
                              !.products = updatedProducts]]
            IN [s EXCEPT !.modules = recalculateLayout(moduleId, updatedModules, s.excelData)]

addProductFromExcel(s, moduleId, productData, id) ==
    LET k == moduleIndex(s.modules, moduleId)
    IN IF k = 0 THEN s
       ELSE LET newProduct == [productData EXCEPT !.id = id, !.moduleId = moduleId]
                updatedProducts == Append(s.modules[k].products, newProduct)
                moduleUpdates == autoResizeModuleToFitProducts(updatedProducts)
                updatedModules == [s.modules EXCEPT ![k] =
                    [@ EXCEPT !.width = moduleUpdates.width,
                              !.height = moduleUpdates.height,
                              !.products = updatedProducts]]
            IN [s EXCEPT !.modules = recalculateLayout(moduleId, updatedModules, s.excelData)]

removeProduct(s, productId) ==
    LET k == ownerIndex(s.modules, productId)
    IN IF k = 0 THEN s
       ELSE LET targetModuleId == s.modules[k].id
                productToRemove == s.modules[k].products[productIndex(s.modules[k].products, productId)]
                updatedExcelData ==
                    IF ~s.excelData.null /\ HasEan(productToRemove.ean)
                    THEN [s.excelData EXCEPT !.items = SelectSeq(@, LAMBDA item :
                            item.ean # productToRemove.ean /\
                            item.originalEan # productToRemove.originalEan)]
                    ELSE s.excelData
                remainingProducts == SelectSeq(s.modules[k].products, LAMBDA p : p.id # productId)
                moduleUpdates == autoResizeModuleToFitProducts(remainingProducts)
                updatedModules == [s.modules EXCEPT ![k] =
                    [@ EXCEPT !.width = moduleUpdates.width,
                              !.height = moduleUpdates.height,
                              !.products = remainingProducts]]
            IN [s EXCEPT !.modules = recalculateLayout(targetModuleId, updatedModules, updatedExcelData),
                         !.excelData = updatedExcelData,
                         !.selectedProduct = IF @ = productId THEN NoId ELSE @]

\* position: the optional drop point, [x |-> Undef, y |-> Undef] when absent
moveProduct(s, productId, toModuleId, position) ==
    LET k == ownerIndex(s.modules, productId)
    IN IF k = 0 THEN s
       ELSE LET product == s.modules[k].products[productIndex(s.modules[k].products, productId)]
                fromModuleId == s.modules[k].id
                \* the product is taken out of every module that lists it
                updatedModules == [i \in 1..Len(s.modules) |->
                    [s.modules[i] EXCEPT !.products = SelectSeq(@, LAMBDA p : p.id # productId)]]
                toModuleNumber == moduleNumber(toModuleId)
                targetRecords == SelectSeq(s.excelData.items, LAMBDA item : item.module = toModuleNumber)
                nextPosition ==
                    IF hasModule(updatedModules, toModuleId) /\ ~s.excelData.null /\ Len(targetRecords) > 0
                    THEN (MaxOf({Floor(OrElse(targetRecords[i].position, 0)) : i \in 1..Len(targetRecords)}) + 1) * PosScale
                    ELSE 1 * PosScale
                updatedExcelData ==
                    IF ~s.excelData.null /\ HasEan(product.ean)
                    THEN [s.excelData EXCEPT !.items = [i \in 1..Len(@) |->
                            IF @[i].ean = product.ean \/ @[i].originalEan = product.originalEan
                            THEN [@[i] EXCEPT !.module = toModuleNumber, !.position = nextPosition]
                            ELSE @[i]]]
                    ELSE s.excelData
                finalModules == [i \in 1..Len(updatedModules) |->
                    IF updatedModules[i].id = toModuleId
                    THEN [updatedModules[i] EXCEPT !.products = Append(@,
                            [product EXCEPT !.moduleId = toModuleId,
                                            !.position = nextPosition,
                                            !.x = OrElse(position.x, 8),
                                            !.y = OrElse(position.y, 8)])]
                    ELSE updatedModules[i]]
                afterSource == recalculateLayout(fromModuleId, finalModules, updatedExcelData)
            IN [s EXCEPT !.modules = recalculateLayout(toModuleId, afterSource, updatedExcelData),
                         !.excelData = updatedExcelData]

\* (item.ean === code || item.originalEan === code) && item.module === number
recordMatches(item, code, number) ==
    (item.ean = code \/ item.originalEan = code) /\ item.module = number

\* fromIndex, toIndex are the 0-based indices the drop handler passes
reorderProductsInModule(s, moduleId, fromIndex, toIndex) ==
    LET k == moduleIndex(s.modules, moduleId)
    IN IF k = 0 THEN s
       ELSE LET draggedProduct == s.modules[k].products[fromIndex + 1]
                newProducts == InsertAt(RemoveAt(s.modules[k].products, fromIndex + 1),
                                        toIndex + 1, draggedProduct)
                updatedModules == [s.modules EXCEPT ![k] = [@ EXCEPT !.products = newProducts]]
                number == moduleNumber(moduleId)
                draggedProductEan == EanOr(draggedProduct.ean, draggedProduct.originalEan)
                targetAt == IF toIndex = 0 THEN 1 ELSE toIndex - 1
                hasTarget == targetAt + 1 <= Len(newProducts)
                targetProductEan ==
                    IF hasTarget
                    THEN EanOr(newProducts[targetAt + 1].ean, newProducts[targetAt + 1].originalEan)
                    ELSE NoEan
                items == s.excelData.items
                targetItem == FindIndex(items, LAMBDA t : recordMatches(t, targetProductEan, number))
                draggedItem == FindIndex(items, LAMBDA d : recordMatches(d, draggedProductEan, number))
                updatedExcelData ==
                    IF ~s.excelData.null /\ HasEan(draggedProductEan) /\ HasEan(targetProductEan)
                    THEN [s.excelData EXCEPT !.items = [i \in 1..Len(items) |->
                            IF recordMatches(items[i], draggedProductEan, number)
                            THEN (IF targetItem # 0
                                  THEN [items[i] EXCEPT !.position = items[targetItem].position]
                                  ELSE items[i])
                            ELSE IF recordMatches(items[i], targetProductEan, number)
                            THEN (IF draggedItem # 0
                                  THEN [items[i] EXCEPT !.position = items[draggedItem].position]
                                  ELSE items[i])
                            ELSE items[i]]]
                    ELSE s.excelData
            IN [s EXCEPT !.modules = recalculateLayout(moduleId, updatedModules, updatedExcelData),
                         !.excelData = updatedExcelData]

\* renumber with the array index taken as the position (first product 0)
RECURSIVE renumberFromZero(_, _, _, _)
renumberFromZero(items, newProducts, index, number) ==
    IF index > Len(newProducts) THEN items
    ELSE LET productEan == EanOr(newProducts[index].ean, newProducts[index].originalEan)
             excelIndex == FindIndex(items, LAMBDA item :
                (item.ean = productEan \/ item.originalEan = productEan) /\ item.module = number)
         IN renumberFromZero(IF excelIndex # 0
                             THEN [items EXCEPT ![excelIndex] = [@ EXCEPT !.position = (index - 1) * PosScale]]
                             ELSE items,
                             newProducts, index + 1, number)

\* position = index + 1 written record by record, in the new array order
RECURSIVE renumber(_, _, _, _)
renumber(items, newProducts, index, number) ==
    IF index > Len(newProducts) THEN items
    ELSE LET productEan == EanOr(newProducts[index].ean, newProducts[index].originalEan)
             excelIndex == FindIndex(items, LAMBDA item : recordMatches(item, productEan, number))
         IN renumber(IF excelIndex # 0
                     THEN [items EXCEPT ![excelIndex] = [@ EXCEPT !.position = index * PosScale]]
                     ELSE items,
                     newProducts, index + 1, number)

\* the product array insertProductAtPosition hands to the renumbering
insertedOrder(products, dragIndex, hoverIndex) ==
    LET adjustedHoverIndex == IF hoverIndex > dragIndex THEN hoverIndex - 1 ELSE hoverIndex
    IN InsertAt(RemoveAt(products, dragIndex + 1), adjustedHoverIndex + 1, products[dragIndex + 1])

insertProductAtPosition(s, moduleId, dragIndex, hoverIndex) ==
    LET k == moduleIndex(s.modules, moduleId)
    IN IF k = 0 THEN s
       ELSE LET newProducts == insertedOrder(s.modules[k].products, dragIndex, hoverIndex)
                updatedModules == [s.modules EXCEPT ![k] = [@ EXCEPT !.products = newProducts]]
                updatedExcelData ==
                    IF ~s.excelData.null
                    THEN [s.excelData EXCEPT !.items =
                            renumber(@, newProducts, 1, moduleNumber(moduleId))]
                    ELSE s.excelData
            IN [s EXCEPT !.modules = recalculateLayout(moduleId, updatedModules, updatedExcelData),
                         !.excelData = updatedExcelData]

\* a free drag that ends, as the other reducers do, with a layout run
moveProductWithinModuleRelaid(s, productId, newPosition) ==
    LET k == ownerIndex(s.modules, productId)
    IN IF k = 0 THEN s
       ELSE [s EXCEPT !.modules = recalculateLayout(s.modules[k].id,
                [s.modules EXCEPT ![k].products = [i \in 1..Len(@) |->
                    IF @[i].id = productId
                    THEN [@[i] EXCEPT !.x = newPosition.x, !.y = newPosition.y]
                    ELSE @[i]]],
                s.excelData)]

moveProductWithinModule(s, productId, newPosition) ==
    LET k == ownerIndex(s.modules, productId)
    IN IF k = 0 THEN s
       ELSE [s EXCEPT !.modules[k].products = [i \in 1..Len(@) |->
                IF @[i].id = productId
                THEN [@[i] EXCEPT !.x = newPosition.x, !.y = newPosition.y]
                ELSE @[i]]]

\* the record syncWithExcelData matches a product to (0: none)
syncRecordIndex(product, items) ==
    IF HasEan(product.ean) \/ HasEan(product.originalEan)
    THEN FindIndex(items, LAMBDA item :
            item.ean = product.ean \/ item.originalEan = product.originalEan
            \/ item.ean = product.originalEan)
    ELSE 0

syncProduct(product, items) ==
    LET k == syncRecordIndex(product, items)
    IN IF k = 0 THEN product
       ELSE [product EXCEPT
                !.realWidth = items[k].width,
                !.realHeight = OrElse(items[k].height, @),
                !.scaledWidth = items[k].width,
                !.scaledHeight = OrElse(items[k].height, @),
                !.position = OrElse(items[k].position, @)]

RECURSIVE relayoutAll(_, _, _, _)
relayoutAll(updatedModules, i, finalModules, data) ==
    IF i > Len(updatedModules) THEN finalModules
    ELSE relayoutAll(updatedModules, i + 1,
            IF Len(updatedModules[i].products) > 0
            THEN recalculateLayout(updatedModules[i].id, finalModules, data)
            ELSE finalModules,
            data)

syncWithExcelData(s) ==
    IF s.excelData.null THEN s
    ELSE LET items == s.excelData.items
             updatedModules == [i \in 1..Len(s.modules) |->
                LET module == s.modules[i]
                    number == moduleNumber(module.id)
                IN IF \E j \in 1..Len(items) : items[j].module = number
                   THEN LET updatedProducts == [j \in 1..Len(module.products) |->
                                syncProduct(module.products[j], items)]
                            moduleUpdates == autoResizeModuleToFitProducts(updatedProducts)
                        IN [module EXCEPT !.width = moduleUpdates.width,
                                          !.height = moduleUpdates.height,
                                          !.products = updatedProducts]
                   ELSE module]
         IN [s EXCEPT !.modules = relayoutAll(updatedModules, 1, updatedModules, s.excelData)]

----------------------------------------------------------------------------
(* Inputs *)

Row(ean, module, width, height, depth, position, quantity) ==
    [ean |-> ean, module |-> module, width |-> width, height |-> height,
     depth |-> depth, position |-> position, quantity |-> quantity]

\* X: a stacked pair 1.5 / 1.51; Y: its own column; Z: module 2, no height column
SheetStacked == <<Row("X", "1", 30, 40, 150, 150, 2),
                  Row("Y", "1", 20, 70, 0, 200, 1),
                  Row("Z", "2", 25, 0, 100, 100, 1)>>
Sheets == {SheetStacked}

\* one-row spreadsheets for the row expansion
RowPositions == {0, 100, 200, 150, 199}
RowSheets == {<<Row("X", "1", 30, 40, 100, position, quantity)>> :
                position \in RowPositions, quantity \in 1..MaxQuantity}

\* height of the uploaded image at the record's width, used when the record has none
ImageHeights == {35}
DropPoints == {[x |-> Undef, y |-> Undef], [x |-> 5, y |-> 7]}
DragPoints == {[x |-> 3, y |-> 9]}
ModuleUpdates == {[width |-> Undef, height |-> 60]}

\* Sidebar.handleAddModule: the module data, and the ids generateId may return
NewModule == [width |-> 250, height |-> 180, depth |-> 300]
GeneratedIds == {"k3x9q2w1z"}

NullData == [null |-> TRUE, items |-> <<>>]
Data(items) == [null |-> FALSE, items |-> items]

\* a configuration file saved before modules had a depth: one empty module,
\* no records
ConfigWithoutDepth ==
    [modules |-> <<[id |-> "module-1", width |-> 250, height |-> 180, depth |-> 0,
                    products |-> <<>>]>>,
     excelData |-> NullData]
Configs == {ConfigWithoutDepth}

\* SmartFileUpload.handleFileUpload between two files: no record is waiting
\* for its image; processed: results.success + results.duplicated
NoUpload == [pc |-> "idle", queue |-> <<>>, processed |-> 0]

\* the last reducer call: its name and arguments, the modules on which it ran
\* the layout engine to the end, and the exception it raised
Op(name, moduleId, productId, toModuleId, fromIndex, toIndex, laid, error) ==
    [name |-> name, moduleId |-> moduleId, productId |-> productId,
     toModuleId |-> toModuleId, fromIndex |-> fromIndex, toIndex |-> toIndex,
     laid |-> laid, error |-> error]

\* SmartFileUpload.handleFileUpload: the product built from a matched record
productFromRecord(productData, imageHeight) ==
    [id |-> NoId, moduleId |-> NoModule,
     ean |-> productData.ean,
     originalEan |-> EanOr(productData.originalEan, <<productData.ean[1], 0>>),
     scaledWidth |-> productData.width,
     scaledHeight |-> OrElse(productData.height, imageHeight),
     realWidth |-> productData.width,
     realHeight |-> OrElse(productData.height, imageHeight),
     x |-> Undef, y |-> Undef,
     position |-> productData.position]

\* FileUpload.handleFileUpload: a product from an image alone
productFromImage(moduleId) ==
    [id |-> NoId, moduleId |-> moduleId, ean |-> NoEan, originalEan |-> NoEan,
     scaledWidth |-> 20, scaledHeight |-> 35, realWidth |-> 0, realHeight |-> 0,
     x |-> 8, y |-> 0, position |-> 0]

allProducts(mods) ==
    UNION {{mods[i].products[j] : j \in 1..Len(mods[i].products)} : i \in 1..Len(mods)}
productIds(mods) == {p.id : p \in allProducts(mods)}
moduleIdsOf(mods) == {mods[i].id : i \in 1..Len(mods)}
moduleById(mods, moduleId) == mods[moduleIndex(mods, moduleId)]
productById(mods, productId) == CHOOSE p \in allProducts(mods) : p.id = productId
withProducts(mods) == {mods[i].id : i \in {j \in 1..Len(mods) : Len(mods[j].products) > 0}}

----------------------------------------------------------------------------
(* The store as a state machine *)

Init ==
    /\ modules = <<>>
    /\ excelData = NullData
    /\ selectedModule = NoModule
    /\ selectedProduct = NoId
    /\ dragMode = "swap"
    /\ nextId = 1
    /\ file = <<>>
    /\ op = Op("init", NoModule, NoId, NoModule, 0, 0, {}, "none")
    /\ steps = 0
    /\ upload = NoUpload

\* one task of the event loop commits state s; u: where a smart upload that
\* is under way stands afterwards. The session is cut off after MaxSteps tasks
CommitWith(s, o, u) ==
    /\ steps < MaxSteps
    /\ steps' = steps + 1
    /\ modules' = s.modules
    /\ excelData' = s.excelData
    /\ selectedModule' = s.selectedModule
    /\ selectedProduct' = s.selectedProduct
    /\ dragMode' = s.dragMode
    /\ op' = o
    /\ upload' = u

\* one reducer call
Commit(s, o) == CommitWith(s, o, upload)

\* ExcelUpload.handleFileUpload: parse, setExcelData, syncWithExcelData
Upload(sheet) ==
    /\ file' = sheet
    /\ Commit(syncWithExcelData([State EXCEPT !.excelData = Data(parseExcelFile(sheet))]),
              Op("uploadExcel", NoModule, NoId, NoModule, 0, 0, withProducts(modules), "none"))
    /\ UNCHANGED nextId

HandleExcelUpload == \E sheet \in Sheets : Upload(sheet)

\* ExcelUpload.removeExcelData
RemoveExcelData ==
    /\ ~excelData.null
    /\ file' = <<>>
    /\ Commit([State EXCEPT !.excelData = NullData],
              Op("removeExcelData", NoModule, NoId, NoModule, 0, 0, {}, "none"))
    /\ UNCHANGED nextId

\* ExcelViewer.handleSaveEdit with an unchanged cell: updateExcelData, syncWithExcelData
SyncWithExcelData ==
    /\ ~excelData.null
    /\ Commit(syncWithExcelData(State),
              Op("syncWithExcelData", NoModule, NoId, NoModule, 0, 0, withProducts(modules), "none"))
    /\ UNCHANGED <<nextId, file>>

EnsureModuleExists ==
    \E k \in 1..Len(excelData.items) :
        LET moduleId == moduleIdOf(excelData.items[k].module)
        IN /\ Commit(ensureModuleExists(State, moduleId),
                     Op("ensureModuleExists", moduleId, NoId, NoModule, 0, 0, {}, "none"))
           /\ UNCHANGED <<nextId, file>>

AddProductFromExcel ==
    \E k \in 1..Len(excelData.items), imageHeight \in ImageHeights :
        LET moduleId == moduleIdOf(excelData.items[k].module)
        IN /\ nextId <= MaxProducts
           /\ hasModule(modules, moduleId)
           /\ Commit(addProductFromExcel(State, moduleId,
                        productFromRecord(excelData.items[k], imageHeight), nextId),
                     Op("addProductFromExcel", moduleId, nextId, NoModule, 0, 0,
                        IF excelData.null THEN {} ELSE {moduleId}, "none"))
           /\ nextId' = nextId + 1
           /\ UNCHANGED file

\* FileUpload.handleFileUpload on a module of the sidebar
AddProduct ==
    \E moduleId \in moduleIdsOf(modules) :
        LET r == addProduct(State, moduleId, productFromImage(moduleId), nextId)
        IN /\ Commit(r.state, Op("addProduct", moduleId, nextId, NoModule, 0, 0, {}, r.error))
           /\ UNCHANGED <<nextId, file>>

UpdateModule ==
    \E id \in moduleIdsOf(modules), updates \in ModuleUpdates :
        LET module == moduleById(modules, id)
            changed == (Truthy(updates.width) /\ updates.width # module.width) \/
                       (Truthy(updates.height) /\ updates.height # module.height)
        IN /\ Commit(updateModule(State, id, updates),
                     Op("updateModule", id, NoId, NoModule, 0, 0,
                        IF changed /\ ~excelData.null THEN {id} ELSE {}, "none"))
           /\ UNCHANGED <<nextId, file>>

RemoveProduct ==
    \E productId \in productIds(modules) :
        LET moduleId == modules[ownerIndex(modules, productId)].id
        IN /\ Commit(removeProduct(State, productId),
                     Op("removeProduct", moduleId, productId, NoModule, 0, 0,
                        IF excelData.null THEN {} ELSE {moduleId}, "none"))
           /\ UNCHANGED <<nextId, file>>

\* ModuleComponent drop: only onto another, existing module
MoveProduct ==
    \E productId \in productIds(modules), toModuleId \in moduleIdsOf(modules), position \in DropPoints :
        LET fromModuleId == modules[ownerIndex(modules, productId)].id
        IN /\ fromModuleId # toModuleId
           /\ Commit(moveProduct(State, productId, toModuleId, position),
                     Op("moveProduct", fromModuleId, productId, toModuleId, 0, 0,
                        IF excelData.null THEN {} ELSE {fromModuleId, toModuleId}, "none"))
           /\ UNCHANGED <<nextId, file>>

\* ProductComponent drop in swap mode: two different products of one module
ReorderProductsInModule ==
    \E i \in 1..Len(modules) :
        \E fromIndex, toIndex \in 0..(Len(modules[i].products) - 1) :
            /\ dragMode = "swap"
            /\ fromIndex # toIndex
            /\ Commit(reorderProductsInModule(State, modules[i].id, fromIndex, toIndex),
                      Op("reorderProductsInModule", modules[i].id, NoId, NoModule, fromIndex, toIndex,
                         IF excelData.null THEN {} ELSE {modules[i].id}, "none"))
            /\ UNCHANGED <<nextId, file>>

\* ProductComponent drop in insert mode
InsertProductAtPosition ==
    \E i \in 1..Len(modules) :
        \E dragIndex, hoverIndex \in 0..(Len(modules[i].products) - 1) :
            /\ dragMode = "insert"
            /\ dragIndex # hoverIndex
            /\ Commit(insertProductAtPosition(State, modules[i].id, dragIndex, hoverIndex),
                      Op("insertProductAtPosition", modules[i].id, NoId, NoModule, dragIndex, hoverIndex,
                         IF excelData.null THEN {} ELSE {modules[i].id}, "none"))
            /\ UNCHANGED <<nextId, file>>

\* productId: a product of a module, or one that has been removed meanwhile
MoveProductWithinModule ==
    \E productId \in 1..(nextId - 1), newPosition \in DragPoints :
        /\ Commit(moveProductWithinModule(State, productId, newPosition),
                  Op("moveProductWithinModule",
                     IF productId \in productIds(modules)
                     THEN modules[ownerIndex(modules, productId)].id ELSE NoModule,
                     productId, NoModule, 0, 0, {}, "none"))
        /\ UNCHANGED <<nextId, file>>

\* the store's moveProduct called with the id of a module that does not exist
MoveProductToMissingModule ==
    \E productId \in productIds(modules), toModuleId \in ModuleIds \ moduleIdsOf(modules) :
        LET fromModuleId == modules[ownerIndex(modules, productId)].id
        IN /\ Commit(moveProduct(State, productId, toModuleId, [x |-> Undef, y |-> Undef]),
                     Op("moveProductToMissingModule", fromModuleId, productId, toModuleId, 0, 0,
                        IF excelData.null THEN {} ELSE {fromModuleId}, "none"))
           /\ UNCHANGED <<nextId, file>>

\* ModuleList: the remove button of a module
RemoveModule ==
    \E id \in moduleIdsOf(modules) :
        /\ Commit(removeModule(State, id),
                  Op("removeModule", id, NoId, NoModule, 0, 0, {}, "none"))
        /\ UNCHANGED <<nextId, file>>

\* ModuleList: the eye button selects the module or clears the selection
SelectModule ==
    \E id \in moduleIdsOf(modules) :
        /\ Commit(selectModule(State, IF selectedModule = id THEN NoModule ELSE id),
                  Op("selectModule", id, NoId, NoModule, 0, 0, {}, "none"))
        /\ UNCHANGED <<nextId, file>>

\* ProductComponent.handleClick
SelectProduct ==
    \E productId \in productIds(modules) :
        /\ selectedProduct # productId
        /\ Commit(selectProduct(State, productId),
                  Op("selectProduct", NoModule, productId, NoModule, 0, 0, {}, "none"))
        /\ UNCHANGED <<nextId, file>>

\* Sidebar: the Swap / Insert buttons
SetDragMode ==
    \E mode \in {"swap", "insert"} :
        /\ dragMode # mode
        /\ Commit(setDragMode(State, mode),
                  Op("setDragMode", NoModule, NoId, NoModule, 0, 0, {}, "none"))
        /\ UNCHANGED <<nextId, file>>

\* Sidebar.handleImportConfig
ImportConfig ==
    \E config \in Configs :
        /\ Commit(importConfig(State, config),
                  Op("importConfig", NoModule, NoId, NoModule, 0, 0, {}, "none"))
        /\ UNCHANGED <<nextId, file>>

Next ==
    \/ HandleExcelUpload
    \/ RemoveExcelData
    \/ SyncWithExcelData
    \/ EnsureModuleExists
    \/ AddProductFromExcel
    \/ AddProduct
    \/ UpdateModule
    \/ RemoveProduct
    \/ MoveProduct
    \/ ReorderProductsInModule
    \/ InsertProductAtPosition
    \/ MoveProductWithinModule
    \/ MoveProductToMissingModule
    \/ RemoveModule
    \/ SelectModule
    \/ SelectProduct
    \/ SetDragMode

Spec == Init /\ [][Next]_vars

----------------------------------------------------------------------------
(* Depth capacities: a session that may import a saved configuration, then *)
(* uploads records and products and rearranges them                        *)

NextDepth ==
    \/ ImportConfig
    \/ HandleExcelUpload
    \/ RemoveExcelData
    \/ EnsureModuleExists
    \/ AddProductFromExcel
    \/ RemoveProduct
    \/ MoveProduct
    \/ ReorderProductsInModule

SpecDepth == Init /\ [][NextDepth]_vars

----------------------------------------------------------------------------
(* Row expansion: one spreadsheet row is parsed and its records are uploaded *)

InitRows ==
    /\ modules = <<>>
    /\ excelData = NullData
    /\ selectedModule = NoModule
    /\ selectedProduct = NoId
    /\ dragMode = "swap"
    /\ nextId = 1
    /\ file \in RowSheets
    /\ op = Op("init", NoModule, NoId, NoModule, 0, 0, {}, "none")
    /\ steps = 0
    /\ upload = NoUpload

ParseFile == excelData.null /\ Upload(file)

NextRows ==
    \/ ParseFile
    \/ EnsureModuleExists
    \/ AddProductFromExcel

SpecRows == InitRows /\ [][NextRows]_vars

----------------------------------------------------------------------------
(* Ownership: the reducers that create, move and remove modules and products *)

\* Sidebar: the Add Module button; generateId returns an id that no module,
\* record or selection names
AddModule ==
    \E id \in GeneratedIds :
        /\ ~hasModule(modules, id)
        /\ selectedModule # id
        /\ \A k \in 1..Len(excelData.items) : excelData.items[k].module # id
        /\ Commit(addModule(State, NewModule, id),
                  Op("addModule", id, NoId, NoModule, 0, 0, {}, "none"))
        /\ UNCHANGED <<nextId, file>>

NextOwnership ==
    \/ AddModule
    \/ HandleExcelUpload
    \/ SyncWithExcelData
    \/ EnsureModuleExists
    \/ AddProductFromExcel
    \/ AddProduct
    \/ RemoveProduct
    \/ MoveProduct
    \/ MoveProductToMissingModule
    \/ ReorderProductsInModule
    \/ SetDragMode
    \/ InsertProductAtPosition
    \/ MoveProductWithinModule
    \/ RemoveModule

SpecOwnership == Init /\ [][NextOwnership]_vars

----------------------------------------------------------------------------
(* Selection: products and modules are selected, moved, removed, and the *)
(* planogram is reset                                                    *)

\* Sidebar: the Reset button
ResetPlanogram ==
    /\ file' = <<>>
    /\ Commit(resetPlanogram(State),
              Op("resetPlanogram", NoModule, NoId, NoModule, 0, 0, {}, "none"))
    /\ UNCHANGED nextId

NextSelection ==
    \/ HandleExcelUpload
    \/ EnsureModuleExists
    \/ AddProductFromExcel
    \/ SelectProduct
    \/ SelectModule
    \/ RemoveProduct
    \/ RemoveModule
    \/ MoveProduct
    \/ ResetPlanogram

SpecSelection == Init /\ [][NextSelection]_vars

----------------------------------------------------------------------------
(* Smart upload: SmartFileUpload.handleFileUpload runs as a chain of tasks, *)
(* one per awaited image, between which the sidebar buttons can be clicked  *)

\* the image files dropped on the upload area, by the item code in their name
ImageEans == {"X", "Z"}

\* excelData.filter(p => p.originalEan === ean || p.ean === ean ||
\*                       p.ean.startsWith(ean + '_'))
matchingProducts(items, ean) ==
    SelectSeq(items, LAMBDA p :
        p.originalEan = <<ean, 0>> \/ p.ean = <<ean, 0>> \/ (p.ean[1] = ean /\ p.ean[2] > 0))

\* the drop of one image file: the matching records are taken from the
\* records of this render, ensureModuleExists is called for the first of
\* them, and the handler waits for the image to load
StartSmartUpload ==
    \E ean \in ImageEans :
        LET matching == matchingProducts(excelData.items, ean)
        IN /\ upload.pc = "idle"
           /\ ~excelData.null
           /\ Len(matching) > 0
           /\ nextId + Len(matching) - 1 <= MaxProducts
           /\ CommitWith(ensureModuleExists(State, moduleIdOf(matching[1].module)),
                         Op("smartUploadStart", moduleIdOf(matching[1].module), NoId,
                            NoModule, 0, 0, {}, "none"),
                         [pc |-> "awaiting", queue |-> matching, processed |-> 0])
           /\ UNCHANGED <<nextId, file>>

\* img.onload: addProductFromExcel for the record that was waiting, the
\* record is counted, and the loop goes on to the next record
\* (ensureModuleExists, then the next wait) or ends
ImageLoaded ==
    \E imageHeight \in ImageHeights :
        LET productData == Head(upload.queue)
            moduleId == moduleIdOf(productData.module)
            rest == Tail(upload.queue)
            found == hasModule(modules, moduleId)
            added == addProductFromExcel(State, moduleId,
                        productFromRecord(productData, imageHeight), nextId)
        IN /\ upload.pc = "awaiting"
           /\ CommitWith(IF rest = <<>> THEN added
                         ELSE ensureModuleExists(added, moduleIdOf(Head(rest).module)),
                         Op("smartUploadAdd", moduleId, IF found THEN nextId ELSE NoId,
                            NoModule, 0, 0,
                            IF found /\ ~excelData.null THEN {moduleId} ELSE {}, "none"),
                         [pc |-> IF rest = <<>> THEN "idle" ELSE "awaiting",
                          queue |-> rest,
                          processed |-> upload.processed + 1])
           /\ nextId' = IF found THEN nextId + 1 ELSE nextId
           /\ UNCHANGED file

NextUpload ==
    \/ HandleExcelUpload
    \/ StartSmartUpload
    \/ ImageLoaded
    \/ RemoveModule
    \/ ResetPlanogram
    \/ ImportConfig

SpecUpload == Init /\ [][NextUpload]_vars

TypeOK ==
    /\ nextId \in 1..(MaxProducts + 1)
    /\ \A p \in allProducts(modules) : p.position >= 0 /\ p.scaledWidth > 0 /\ p.scaledHeight > 0

----------------------------------------------------------------------------
(* Claims *)

ownerOf(mods, productId) == mods[ownerIndex(mods, productId)].id
recordsOf(product, data) ==
    {i \in 1..Len(data.items) : data.items[i].ean = product.ean}

\* C1: after a cross-module moveProduct every record whose item code is the
\* item code of a product names the module that owns that product, also for
\* the duplicates X_1, X_2, ... that were not moved themselves.
C1_RecordModuleSync ==
    op.name = "moveProduct" =>
        \A p \in allProducts(modules) : \A i \in recordsOf(p, excelData) :
            excelData.items[i].module = moduleNumber(ownerOf(modules, p.id))

\* every item code is carried by at most one product
OneProductPerCode ==
    \A p, q \in allProducts(modules) : p.ean = q.ean => p.id = q.id

\* C1, the failing case: X_1 was moved, its sibling X_2 stayed, and the record
\* of X_2 names the target module.
C1_SiblingRecordFollowsMove ==
    /\ op.name = "moveProduct"
    /\ OneProductPerCode
    /\ \E p \in allProducts(modules) :
        /\ p.id # op.productId
        /\ p.originalEan = productById(modules, op.productId).originalEan
        /\ ownerOf(modules, p.id) = op.moduleId
        /\ \E i \in recordsOf(p, excelData) : excelData.items[i].module = moduleNumber(op.toModuleId)

\* how often a product id occurs in the modules' product arrays
occurrences(mods, productId) ==
    SeqSum([i \in 1..Len(mods) |->
        Len(SelectSeq(mods[i].products, LAMBDA p : p.id = productId))])
productCount(mods) == SeqSum([i \in 1..Len(mods) |-> Len(mods[i].products)])
sameProducts(mods, after) ==
    \A productId \in productIds(mods) \cup productIds(after) :
        occurrences(mods, productId) = occurrences(after, productId)

\* C2: moveProduct, reorderProductsInModule, insertProductAtPosition,
\* moveProductWithinModule, updateModule and syncWithExcelData keep the multiset
\* of product ids; addProduct and addProductFromExcel on an existing module add
\* exactly one product; removeProduct removes exactly one.
C2_Conservation ==
    [][/\ op'.name \in {"moveProduct", "reorderProductsInModule", "insertProductAtPosition",
                        "moveProductWithinModule", "updateModule", "syncWithExcelData"}
            => sameProducts(modules, modules')
       /\ op'.name \in {"addProduct", "addProductFromExcel"} /\ hasModule(modules, op'.moduleId)
            => /\ productCount(modules') = productCount(modules) + 1
               /\ \A productId \in productIds(modules) :
                    occurrences(modules', productId) = occurrences(modules, productId)
       /\ op'.name = "removeProduct"
            => /\ productCount(modules') = productCount(modules) - 1
               /\ occurrences(modules', op'.productId) = 0
      ]_vars

\* C2, the failing case: addProduct on an existing module raised and added nothing.
C2_AddProductRaised ==
    op.name = "addProduct" /\ hasModule(modules, op.moduleId) /\ op.error = "ReferenceError"

\* the record of the module that the reorder and insert reducers match a
\* product to (0: none)
ownRecord(product, data, moduleId) ==
    FindIndex(data.items, LAMBDA item :
        recordMatches(item, EanOr(product.ean, product.originalEan), moduleNumber(moduleId)))

\* every product of the module is matched to a record of the module, no two
\* to the same one, and the layout engine reads the same record for it
ownRecords(mods, data, moduleId) ==
    /\ ~data.null
    /\ hasModule(mods, moduleId)
    /\ LET ps == moduleById(mods, moduleId).products
       IN /\ \A i \in 1..Len(ps) :
                /\ ownRecord(ps[i], data, moduleId) # 0
                /\ ownRecord(ps[i], data, moduleId) = layoutRecordIndex(ps[i], data.items)
          /\ \A i, j \in 1..Len(ps) :
                i # j => ownRecord(ps[i], data, moduleId) # ownRecord(ps[j], data, moduleId)

\* C3: reorderProductsInModule(moduleId, fromIndex, toIndex) exchanges the
\* positions of the records of the products at fromIndex and at toIndex and
\* leaves every other record as it was, for fromIndex < toIndex and for
\* fromIndex > toIndex.
C3_SwapExchangesTwoPositions ==
    [][(op'.name = "reorderProductsInModule" /\ ownRecords(modules, excelData, op'.moduleId)) =>
        LET ps == moduleById(modules, op'.moduleId).products
            a == ownRecord(ps[op'.fromIndex + 1], excelData, op'.moduleId)
            b == ownRecord(ps[op'.toIndex + 1], excelData, op'.moduleId)
        IN /\ Len(excelData'.items) = Len(excelData.items)
           /\ excelData'.items[a] = [excelData.items[a] EXCEPT !.position = excelData.items[b].position]
           /\ excelData'.items[b] = [excelData.items[b] EXCEPT !.position = excelData.items[a].position]
           /\ \A i \in 1..Len(excelData.items) :
                i \notin {a, b} => excelData'.items[i] = excelData.items[i]
      ]_vars

\* C4: the array insertProductAtPosition(moduleId, dragIndex, hoverIndex)
\* renumbers from has the dragged product at index hoverIndex and the other
\* products in their former relative order, for hoverIndex < dragIndex and
\* for hoverIndex > dragIndex.
C4_InsertAtTargetIndex ==
    [][op'.name = "insertProductAtPosition" =>
        LET ps == moduleById(modules, op'.moduleId).products
            newProducts == insertedOrder(ps, op'.fromIndex, op'.toIndex)
        IN /\ newProducts[op'.toIndex + 1] = ps[op'.fromIndex + 1]
           /\ RemoveAt(newProducts, op'.toIndex + 1) = RemoveAt(ps, op'.fromIndex + 1)
      ]_vars

\* C4, the failing case: a drop on the right neighbour changed no record and
\* no product.
C4_DropOnNextIsNoOp ==
    /\ op.name = "insertProductAtPosition"
    /\ op.toIndex = op.fromIndex + 1
    /\ ownRecords(modules, excelData, op.moduleId)

\* C5: after insertProductAtPosition on a module whose n products are each
\* matched to a record of their own, the records have the positions 1 .. n in
\* the new array order, and the layout puts the products left to right in
\* that order, one product per column.
C5_InsertRenumbers ==
    [][(op'.name = "insertProductAtPosition" /\ ownRecords(modules, excelData, op'.moduleId)) =>
        LET ps == moduleById(modules, op'.moduleId).products
            newProducts == insertedOrder(ps, op'.fromIndex, op'.toIndex)
            placed == moduleById(modules', op'.moduleId).products
        IN /\ \A i \in 1..Len(newProducts) :
                excelData'.items[ownRecord(newProducts[i], excelData, op'.moduleId)].position
                    = i * PosScale
           /\ Len(placed) = Len(newProducts)
           /\ \A i \in 1..Len(placed) :
                /\ placed[i].id = newProducts[i].id
                /\ placed[i].position = i * PosScale
                /\ placed[i].x = SeqSum([j \in 1..(i - 1) |-> placed[j].scaledWidth])
           /\ \A i, j \in 1..Len(placed) : i < j => placed[i].x < placed[j].x
      ]_vars

\* C5 witness: the first of three products was dragged onto the third
C5_InsertedFirstOntoThird ==
    /\ op.name = "insertProductAtPosition"
    /\ op.fromIndex = 0 /\ op.toIndex = 2
    /\ ownRecords(modules, excelData, op.moduleId)
    /\ LET placed == moduleById(modules, op.moduleId).products
       IN /\ Len(placed) = 3
          /\ \A i \in 1..3 :
                /\ placed[i].position = i * PosScale
                /\ excelData.items[ownRecord(placed[i], excelData, op.moduleId)].position = i * PosScale

\* C6: removeProduct deletes exactly the records whose item code is the item
\* code of the removed product; the records of its sibling duplicates stay.
C6_RemoveDeletesOwnRecordOnly ==
    [][(op'.name = "removeProduct" /\ ~excelData.null) =>
        LET removed == productById(modules, op'.productId)
        IN excelData'.items = SelectSeq(excelData.items, LAMBDA item : item.ean # removed.ean)
      ]_vars

\* C6, the failing case: a product X_k is left in a module and no record
\* carries its item code any more.
C6_SiblingLostItsRecord ==
    /\ op.name = "removeProduct"
    /\ ~excelData.null
    /\ \E p \in allProducts(modules) : HasSuffix(p.ean) /\ recordsOf(p, excelData) = {}

\* the parsed file is one row with quantity > 1 and a positive integer position
integerRowParsed ==
    /\ ~excelData.null
    /\ Len(file) = 1
    /\ file[1].quantity > 1
    /\ file[1].position > 0
    /\ Decimal(file[1].position) = 0

C8_MovedToNewRightmostColumn ==
    [][op'.name = "moveProduct" =>
        LET before == moduleById(modules, op'.toModuleId).products
            after == moduleById(modules', op'.toModuleId).products
            expected == IF Len(before) = 0 THEN 1
                        ELSE MaxOf({Floor(before[i].position) : i \in 1..Len(before)}) + 1
            moved == productById(modules', op'.productId)
        IN /\ moved.position = expected * PosScale
           /\ \A i \in 1..Len(after) :
                after[i].id # moved.id =>
                    /\ Floor(after[i].position) < Floor(moved.position)
                    /\ after[i].x < moved.x
      ]_vars

\* C8, the failing case: the moved product has the group key of a product
\* the target already held
C8_MovedIntoOccupiedColumn ==
    /\ op.name = "moveProduct"
    /\ LET moved == productById(modules, op.productId)
       IN \E p \in allProducts(modules) :
            /\ p.id # moved.id
            /\ ownerOf(modules, p.id) = op.toModuleId
            /\ Floor(p.position) = Floor(moved.position)

\* the members of one column, in stack order, up to index i of the laid out array
stackUpTo(ps, i) ==
    SelectSeq(SubSeq(ps, 1, i), LAMBDA p : Floor(p.position) = Floor(ps[i].position))
stackHeightUpTo(ps, i) ==
    SeqSum([k \in 1..Len(stackUpTo(ps, i)) |-> stackUpTo(ps, i)[k].scaledHeight])
\* ps[i + 1] lies directly on ps[i]
stackedOn(ps, i) == i < Len(ps) /\ Floor(ps[i].position) = Floor(ps[i + 1].position)

\* C9 as stated: after the layout engine ran on a module, the bottom edge of
\* every stacked member is the top edge of the member below it, whatever the
\* height of the module.
C9_StackMembersTouch ==
    \A moduleId \in op.laid :
        LET m == moduleById(modules, moduleId)
        IN \A i \in 1..Len(m.products) :
            stackedOn(m.products, i) =>
                m.products[i + 1].y + m.products[i + 1].scaledHeight = m.products[i].y

\* C9 amended: the bottom edge of a stacked member is the top edge of the
\* member below it whenever the module is at least as high as the stack up to
\* and including that member; a member that reaches above the module is put
\* at y = 0 and overlaps the members below it.
C9_StackMembersTouchWhenTheyFit ==
    \A moduleId \in op.laid :
        LET m == moduleById(modules, moduleId)
        IN \A i \in 1..Len(m.products) :
            stackedOn(m.products, i) =>
                IF stackHeightUpTo(m.products, i + 1) <= m.height
                THEN m.products[i + 1].y + m.products[i + 1].scaledHeight = m.products[i].y
                ELSE /\ m.products[i + 1].y = 0
                     /\ m.products[i + 1].scaledHeight > m.products[i].y

\* C9 witness: a laid out module with a stack that fits and touches
C9_StackThatFits ==
    \E moduleId \in op.laid :
        LET m == moduleById(modules, moduleId)
        IN \E i \in 1..Len(m.products) :
            /\ stackedOn(m.products, i)
            /\ stackHeightUpTo(m.products, i + 1) <= m.height
            /\ m.products[i + 1].y + m.products[i + 1].scaledHeight = m.products[i].y
            /\ m.products[i].y + m.products[i].scaledHeight = m.height

\* C9, the case the statement misses: a stack higher than its module
C9_StackAboveModule ==
    \E moduleId \in op.laid :
        LET m == moduleById(modules, moduleId)
        IN \E i \in 1..Len(m.products) :
            stackedOn(m.products, i) /\ stackHeightUpTo(m.products, i + 1) > m.height

\* C10: after the layout engine ran on a module, the members of a group with
\* the smaller key are nowhere right of the members of a group with the
\* larger key, and the members of one group share their x.
C10_ColumnOrder ==
    \A moduleId \in op.laid :
        LET m == moduleById(modules, moduleId)
        IN \A i, j \in 1..Len(m.products) :
            /\ Floor(m.products[i].position) < Floor(m.products[j].position)
                => m.products[i].x <= m.products[j].x
            /\ Floor(m.products[i].position) = Floor(m.products[j].position)
                => m.products[i].x = m.products[j].x

\* C10 witness: a laid out module with a stacked column and a column right of it
C10_TwoColumnsOneStacked ==
    \E moduleId \in op.laid :
        LET m == moduleById(modules, moduleId)
        IN \E i, j, k \in 1..Len(m.products) :
            /\ i # j
            /\ Floor(m.products[i].position) = Floor(m.products[j].position)
            /\ Floor(m.products[i].position) < Floor(m.products[k].position)
            /\ m.products[i].x = m.products[j].x
            /\ m.products[i].x < m.products[k].x

\* C11: after every reducer that ran the layout engine on a module, every
\* product of that module lies inside the module:
\* 0 <= x <= width - scaledWidth and 0 <= y <= height - scaledHeight.
C11_ProductsInsideModule ==
    \A moduleId \in op.laid :
        LET m == moduleById(modules, moduleId)
        IN \A i \in 1..Len(m.products) :
            /\ 0 <= m.products[i].x
            /\ m.products[i].x <= m.width - m.products[i].scaledWidth
            /\ 0 <= m.products[i].y
            /\ m.products[i].y <= m.height - m.products[i].scaledHeight

\* C11, the failing case: a cross-module move laid a product out in a target
\* module that is lower than the product
C11_MovedIntoLowerModule ==
    /\ op.name = "moveProduct"
    /\ op.toModuleId \in op.laid
    /\ LET m == moduleById(modules, op.toModuleId)
           moved == productById(modules, op.productId)
       IN moved.scaledHeight > m.height /\ moved.y = 0

\* C12: running the layout engine again on a module it has just been run on,
\* with the same records, changes nothing: every product keeps its x, y and
\* position, the product array keeps its order and the module its dimensions.
C12_LayoutIdempotent ==
    \A moduleId \in op.laid :
        recalculateLayout(moduleId, modules, excelData) = modules

\* C12 witness: a laid out module with two members of one column at the same
\* stack rank and a second run of the layout engine that leaves it as it is
C12_LaidOutWithEqualRanks ==
    \E moduleId \in op.laid :
        LET m == moduleById(modules, moduleId)
        IN /\ \E i, j \in 1..Len(m.products) :
                /\ i < j
                /\ m.products[i].position = m.products[j].position
           /\ layoutProducts(m, excelData.items) = m.products

\* C13: moveProduct(productId, toModuleId) with no module of id toModuleId
\* leaves the product owned by a module, and changes no record to name a
\* module that does not own the product of that record.
C13_MoveToMissingModuleKeepsProduct ==
    [][op'.name = "moveProductToMissingModule" =>
        /\ ownerIndex(modules', op'.productId) # 0
        /\ \A i \in 1..Len(excelData'.items) :
            \/ (i <= Len(excelData.items) /\ excelData'.items[i] = excelData.items[i])
            \/ \E p \in allProducts(modules') :
                /\ p.ean = excelData'.items[i].ean
                /\ moduleNumber(ownerOf(modules', p.id)) = excelData'.items[i].module
      ]_vars

\* C13, the failing case: after a move to a module that does not exist no
\* module holds the product, and its record names the missing module
C13_ProductDropped ==
    /\ op.name = "moveProductToMissingModule"
    /\ ~hasModule(modules, op.toModuleId)
    /\ ownerIndex(modules, op.productId) = 0
    /\ \E i \in 1..Len(excelData.items) :
        excelData.items[i].module = moduleNumber(op.toModuleId)

\* C14: addProduct(moduleId, product) on an existing module raises no
\* exception and commits a state in which that module holds the new product
\* after its former products, auto-fitted to them, while the other modules
\* are unchanged.
C14_AddProductCommits ==
    [][(op'.name = "addProduct" /\ hasModule(modules, op'.moduleId)) =>
        LET before == moduleById(modules, op'.moduleId)
            after == moduleById(modules', op'.moduleId)
            fit == autoResizeModuleToFitProducts(after.products)
        IN /\ op'.error = "none"
           /\ Len(after.products) = Len(before.products) + 1
           /\ \E i \in 1..Len(after.products) : after.products[i].id = op'.productId
           /\ after.width = fit.width /\ after.height = fit.height
           /\ \A i \in 1..Len(modules) :
                modules[i].id # op'.moduleId => modules'[i] = modules[i]
      ]_vars

\* C14, the failing case: addProduct on an existing module raised a
\* ReferenceError and the module holds no product with the new id
C14_AddProductThrew ==
    /\ op.name = "addProduct"
    /\ op.error = "ReferenceError"
    /\ hasModule(modules, op.moduleId)
    /\ op.productId \notin productIds(modules)

\* the modules the reducer call o relayouts: its module, the target of a move
touchedBy(o) ==
    CASE o.name \in {"addProductFromExcel", "removeProduct",
                     "reorderProductsInModule", "insertProductAtPosition"} -> {o.moduleId}
      [] o.name = "moveProduct" -> {o.moduleId, o.toModuleId}
      [] OTHER -> {}

\* the x and y the layout engine computes for a product of the module
placementOf(module, items, productId) ==
    LET placed == layoutProducts(module, items)
        k == productIndex(placed, productId)
    IN <<placed[k].x, placed[k].y>>

\* C15: when moveProductWithinModule has set the x and y of a product by free
\* drag, the next reducer that relayouts the module holding the product (add,
\* remove, move in or out, reorder, insert, a changed height) commits the
\* product at the x and y the layout engine computes, with records loaded
\* and with excelData null.  (addProduct, which commits nothing, is left to
\* C14.)
C15_ManualPlacementCollapses ==
    [][(/\ op.name = "moveProductWithinModule"
        /\ ownerIndex(modules', op.productId) # 0
        /\ \/ ownerOf(modules', op.productId) \in touchedBy(op')
           \/ /\ op'.name = "updateModule"
              /\ op'.moduleId = ownerOf(modules', op.productId)
              /\ moduleById(modules', op'.moduleId).height # moduleById(modules, op'.moduleId).height)
        => LET m == moduleById(modules', ownerOf(modules', op.productId))
               product == productById(modules', op.productId)
           IN <<product.x, product.y>> = placementOf(m, excelData'.items, op.productId)
      ]_vars

\* C15, the failing case: the records were removed, a product was dragged to
\* a free point, the height of its module was changed, and the product is
\* still at the point it was dragged to
C15_ManualPlacementSurvived ==
    /\ op.name = "updateModule"
    /\ excelData.null
    /\ \E p \in allProducts(modules), point \in DragPoints :
        /\ ownerOf(modules, p.id) = op.moduleId
        /\ p.x = point.x /\ p.y = point.y

\* C16: moveProductWithinModule(productId, {x, y}) changes the x and y of the
\* named product and nothing else: its other fields, the other products, the
\* modules' dimensions and product order, the records, the selection and the
\* drag mode stay; for a product that is in no module the state stays.
C16_FreeDragFrame ==
    [][op'.name = "moveProductWithinModule" =>
        /\ excelData' = excelData
        /\ selectedModule' = selectedModule
        /\ selectedProduct' = selectedProduct
        /\ dragMode' = dragMode
        /\ Len(modules') = Len(modules)
        /\ \A i \in 1..Len(modules) :
            /\ modules'[i] = [modules[i] EXCEPT !.products = modules'[i].products]
            /\ Len(modules'[i].products) = Len(modules[i].products)
            /\ \A j \in 1..Len(modules[i].products) :
                IF modules[i].products[j].id = op'.productId
                THEN \E point \in DragPoints :
                        modules'[i].products[j] =
                            [modules[i].products[j] EXCEPT !.x = point.x, !.y = point.y]
                ELSE modules'[i].products[j] = modules[i].products[j]
        /\ op'.productId \notin productIds(modules) => modules' = modules
      ]_vars

\* C16 witness: records loaded, a product selected, and one of two products of
\* a module dragged to a free point while the other stayed where the layout
\* put it
C16_DraggedNextToLaidOut ==
    /\ op.name = "moveProductWithinModule"
    /\ ~excelData.null
    /\ selectedProduct # NoId
    /\ \E p, q \in allProducts(modules), point \in DragPoints :
        /\ p.id = op.productId /\ q.id # p.id
        /\ ownerOf(modules, q.id) = ownerOf(modules, p.id)
        /\ p.x = point.x /\ p.y = point.y
        /\ <<q.x, q.y>> # <<point.x, point.y>>

\* the depth the claim reads for a product: that of its record, 100 without
\* a record or without a depth
claimedDepth(product, data) ==
    IF depthRecordIndex(product, data) = 0 THEN 100
    ELSE IF data.items[depthRecordIndex(product, data)].depth = 0 THEN 100
    ELSE data.items[depthRecordIndex(product, data)].depth

\* C17: in every committed state calculateDepthCapacity gives every product
\* of a module with a depth the sum, over the products of the module with the
\* same group key, of floor(module.depth / d), d being the depth of the
\* product's record or 100; the members of a group so share one capacity; a
\* module without depth gets no entries.
C17_CapacitySumsOverColumn ==
    \A k \in 1..Len(modules) :
        LET m == modules[k]
            capacities == calculateDepthCapacity(m, excelData)
        IN IF m.depth = 0 THEN DOMAIN capacities = {}
           ELSE /\ DOMAIN capacities = {m.products[i].id : i \in 1..Len(m.products)}
                /\ \A i \in 1..Len(m.products) :
                    capacities[m.products[i].id].capacity =
                        SeqSum([j \in 1..Len(m.products) |->
                            IF Floor(m.products[j].position) = Floor(m.products[i].position)
                            THEN m.depth \div claimedDepth(m.products[j], excelData)
                            ELSE 0])

\* C17 witness: a column of two products with records of depth 150 in a
\* module of depth 300, capacity 2 + 2 for both, next to a product in a
\* module without depth, which has no entry
C17_TwoInColumnAndNoDepth ==
    /\ \E k \in 1..Len(modules) :
        /\ modules[k].depth = 300
        /\ \E i, j \in 1..Len(modules[k].products) :
            /\ i # j
            /\ Floor(modules[k].products[i].position) = Floor(modules[k].products[j].position)
            /\ calculateDepthCapacity(modules[k], excelData)[modules[k].products[i].id].capacity = 4
            /\ calculateDepthCapacity(modules[k], excelData)[modules[k].products[j].id].capacity = 4
    /\ \E k \in 1..Len(modules) :
        /\ modules[k].depth = 0
        /\ Len(modules[k].products) > 0

\* the members of the group of products[i], as indices into the product array
groupMembers(products, i) ==
    {j \in 1..Len(products) : Floor(products[j].position) = Floor(products[i].position)}

\* C18: in every committed state, calculateDepthCapacity marks exactly one
\* product of every group as visible, and that product has the lowest stack
\* rank (the smallest decimal part) of its group, also when no layout run has
\* sorted the product array.
C18_LabelOnBottomProduct ==
    \A k \in 1..Len(modules) :
        LET m == modules[k]
            capacities == calculateDepthCapacity(m, excelData)
        IN m.depth # 0 =>
            \A i \in 1..Len(m.products) :
                LET visible == {j \in groupMembers(m.products, i) :
                                    capacities[m.products[j].id].isVisible}
                IN /\ Cardinality(visible) = 1
                   /\ \A j \in visible : \A l \in groupMembers(m.products, i) :
                        Decimal(m.products[j].position) <= Decimal(m.products[l].position)

\* C18, the failing case: a column whose label is on a member that stands on
\* another member of the column
C18_LabelOnUpperProduct ==
    \E k \in 1..Len(modules) :
        LET m == modules[k]
            capacities == calculateDepthCapacity(m, excelData)
        IN /\ m.depth # 0
           /\ \E i, j \in 1..Len(m.products) :
                /\ Floor(m.products[i].position) = Floor(m.products[j].position)
                /\ Decimal(m.products[i].position) > Decimal(m.products[j].position)
                /\ capacities[m.products[i].id].isVisible

\* C19: removeModule(id) on an existing module commits a state without a
\* module of that id and without any of its products, with selectedModule
\* cleared if it was id and kept otherwise, and with every other module, the
\* records, selectedProduct and the drag mode as they were.
C19_RemoveModuleCascade ==
    [][op'.name = "removeModule" =>
        LET removed == moduleById(modules, op'.moduleId)
        IN /\ ~hasModule(modules', op'.moduleId)
           /\ \A i \in 1..Len(removed.products) :
                removed.products[i].id \notin productIds(modules')
           /\ selectedModule' # op'.moduleId
           /\ selectedModule' = IF selectedModule = op'.moduleId THEN NoModule ELSE selectedModule
           /\ modules' = SelectSeq(modules, LAMBDA m : m.id # op'.moduleId)
           /\ excelData' = excelData
           /\ dragMode' = dragMode
      ]_vars

\* C19 witness: a module was removed together with the selected product it
\* held, while the other module, which is the selected one, stayed
C19_RemovedWithItsProducts ==
    /\ op.name = "removeModule"
    /\ ~hasModule(modules, op.moduleId)
    /\ hasModule(modules, selectedModule)
    /\ selectedProduct # NoId
    /\ selectedProduct \notin productIds(modules)

\* C20: ensureModuleExists(moduleId, name) leaves the whole state as it is
\* when a module with that id exists, and otherwise appends one empty module
\* with that id and the dimensions 200 x 150 x 300 and changes nothing else;
\* after it no two modules have the same id.
C20_EnsureModuleExistsOnce ==
    [][op'.name = "ensureModuleExists" =>
        /\ IF hasModule(modules, op'.moduleId)
           THEN modules' = modules
           ELSE modules' = Append(modules,
                    [id |-> op'.moduleId, width |-> 200, height |-> 150, depth |-> 300,
                     products |-> <<>>])
        /\ excelData' = excelData
        /\ selectedModule' = selectedModule
        /\ selectedProduct' = selectedProduct
        /\ dragMode' = dragMode
        /\ \A i, j \in 1..Len(modules') : modules'[i].id = modules'[j].id => i = j
      ]_vars

\* C20 witness: ensureModuleExists was called for a module that holds
\* products and has been auto-fitted, next to a second module; the module
\* still holds them, and there is one module of that id
C20_CalledForModuleWithProducts ==
    /\ op.name = "ensureModuleExists"
    /\ Len(modules) = 2
    /\ Cardinality({i \in 1..Len(modules) : modules[i].id = op.moduleId}) = 1
    /\ LET m == moduleById(modules, op.moduleId)
       IN /\ Len(m.products) > 0
          /\ <<m.width, m.height>> # <<200, 150>>

----------------------------------------------------------------------------
(* Purity of the record store *)

\* what the record array of the snapshot holds once reducer call o has run on
\* snapshot s: removeProduct (filter), moveProduct and reorderProductsInModule
\* (map) build a new array; insertProductAtPosition takes
\* updatedExcelData = state.excelData and assigns updatedExcelData[excelIndex],
\* which writes the renumbered records into the array of the snapshot
snapshotRecordsAfter(s, o) ==
    IF o.name = "insertProductAtPosition"
    THEN insertProductAtPosition(s, o.moduleId, o.fromIndex, o.toIndex).excelData
    ELSE s.excelData

\* C21: no reducer modifies the record collection of the snapshot it started
\* from: after removeProduct, moveProduct, reorderProductsInModule and
\* insertProductAtPosition the collection of the prior snapshot still holds
\* its prior contents.
C21_PriorRecordsUntouched ==
    [][op'.name \in {"removeProduct", "moveProduct", "reorderProductsInModule",
                     "insertProductAtPosition"}
       => snapshotRecordsAfter(State, op') = excelData]_vars

----------------------------------------------------------------------------
(* Position resolution *)

\* C22: the layout engine resolves a product's position from its matching
\* record, else from the product's own stored position, and only then by
\* auto-assignment: a product with a stored position p > 0 and no matching
\* record is laid out in group floor(p). (The product a moveProduct call has
\* just given a new stored position is left out.)
C22_StoredPositionUsed ==
    [][\A p \in allProducts(modules), q \in allProducts(modules') :
        (/\ q.id = p.id
         /\ q.moduleId \in op'.laid
         /\ ~(op'.name = "moveProduct" /\ op'.productId = p.id)
         /\ ~excelData'.null
         /\ layoutRecordIndex(p, excelData'.items) = 0
         /\ p.position > 0)
        => Floor(q.position) = Floor(p.position)]_vars

\* the layout engine found no position for the product in the records
unresolved(product, data) ==
    LET k == layoutRecordIndex(product, data.items)
    IN k = 0 \/ data.items[k].position = 0

\* C23: auto-assignment uses unused keys: in a module the layout engine has
\* just laid out, a product whose position was auto-assigned shares its group
\* key with no other product of the module, be that one resolved from a
\* record or auto-assigned too.
C23_AutoPositionUnused ==
    \A i \in 1..Len(modules) :
        (modules[i].id \in op.laid /\ ~excelData.null) =>
            \A j, k \in 1..Len(modules[i].products) :
                (j # k /\ unresolved(modules[i].products[j], excelData))
                => Floor(modules[i].products[j].position)
                   # Floor(modules[i].products[k].position)

----------------------------------------------------------------------------
(* Column widths *)

\* the left edge the columns before column n leave to it, each column as wide
\* as autoResizeModuleToFitProducts counts it
leftEdge(ps, keys, n) ==
    SeqSum([k \in 1..(n - 1) |-> maxWidthInGroup(groupOf(ps, keys[k]))])

\* C24: zero-gap columns: in a module the layout engine has just laid out, with
\* the group keys sorted ascending, every member of column N has its left edge
\* at the sum of the widths of the columns before it (the first column at 0),
\* a column's width being the maximum over its members of realWidth if set,
\* else scaledWidth, the width autoResizeModuleToFitProducts sums.
C24_ZeroGapColumns ==
    \A i \in 1..Len(modules) :
        (modules[i].id \in op.laid /\ ~excelData.null) =>
            LET ps == modules[i].products
                keys == sortedGroupKeys(ps)
            IN \A n \in 1..Len(keys), j \in 1..Len(ps) :
                Floor(ps[j].position) = keys[n] => ps[j].x = leftEdge(ps, keys, n)

\* a stacked column of width 30 followed by the column of a narrower product
C24_ColumnAfterStack ==
    \E i \in 1..Len(modules) :
        /\ modules[i].id \in op.laid
        /\ ~excelData.null
        /\ LET ps == modules[i].products
           IN /\ Len(sortedGroupKeys(ps)) = 2
              /\ Len(ps) = 3
              /\ \E j \in 1..Len(ps) : ps[j].x = 30 /\ ps[j].scaledWidth = 20

----------------------------------------------------------------------------
(* Auto-fit dimensions *)

\* the modules the last reducer call has auto-resized
autoResized(module) ==
    \/ op.name \in {"addProductFromExcel", "removeProduct"} /\ module.id = op.moduleId
    \/ /\ op.name \in {"syncWithExcelData", "uploadExcel"}
       /\ \E k \in 1..Len(excelData.items) :
            excelData.items[k].module = moduleNumber(module.id)

\* C25: auto-fit dimensions: after a reducer has auto-resized a module (add
\* product, remove product, sync with records) the module is 200x150 when
\* empty, else max(100, sum of column widths + padding) wide and
\* max(50, tallest column stack + padding) high, the columns being the groups
\* the layout run of the same call has placed; so width >= 100, height >= 50.
C25_FitMatchesPlacedColumns ==
    \A i \in 1..Len(modules) :
        autoResized(modules[i]) =>
            LET fit == autoResizeModuleToFitProducts(modules[i].products)
            IN /\ modules[i].width = fit.width
               /\ modules[i].height = fit.height
               /\ modules[i].width >= 100
               /\ modules[i].height >= 50

----------------------------------------------------------------------------
(* Ownership *)

\* C26: ownership: in every state reached by addModule, ensureModuleExists,
\* addProduct, addProductFromExcel, moveProduct, reorderProductsInModule,
\* insertProductAtPosition, moveProductWithinModule, removeProduct,
\* removeModule and syncWithExcelData, each product id occurs in exactly one
\* module's product array, exactly once, and the product's moduleId is the id
\* of the module that holds it; no module id occurs twice.
C26_Ownership ==
    /\ \A i, j \in 1..Len(modules) : modules[i].id = modules[j].id => i = j
    /\ \A i \in 1..Len(modules) : \A j \in 1..Len(modules[i].products) :
        LET product == modules[i].products[j]
        IN /\ product.moduleId = modules[i].id
           /\ occurrences(modules, product.id) = 1

\* a product moved into the module the Add Module button has made
C26_MovedIntoAddedModule ==
    /\ op.name = "moveProduct"
    /\ op.toModuleId \in GeneratedIds
    /\ \E p \in allProducts(modules) : p.id = op.productId /\ p.moduleId = op.toModuleId
    /\ productCount(modules) >= 2

----------------------------------------------------------------------------
(* Frame of a move *)

\* C27: move frame: moveProduct changes the module and position only of the
\* records whose item code is the moved product's item code; every other
\* record, those of sibling duplicates with the same originalEan included,
\* keeps its module and position, and the products that stay in the source
\* module keep their position encodings and their order.
C27_MoveFrame ==
    [][op'.name = "moveProduct" =>
        LET moved == productById(modules, op'.productId)
            source == moduleById(modules, op'.moduleId)
            staying == SelectSeq(source.products, LAMBDA p : p.id # moved.id)
            stayed == moduleById(modules', op'.moduleId).products
        IN /\ Len(excelData'.items) = Len(excelData.items)
           /\ \A k \in 1..Len(excelData.items) :
                excelData.items[k].ean # moved.ean =>
                    /\ excelData'.items[k].module = excelData.items[k].module
                    /\ excelData'.items[k].position = excelData.items[k].position
           /\ Len(stayed) = Len(staying)
           /\ \A j \in 1..Len(staying) :
                /\ stayed[j].id = staying[j].id
                /\ stayed[j].position = staying[j].position]_vars

----------------------------------------------------------------------------
(* Selection *)

\* C28: selection validity: after any sequence of selectProduct on existing
\* products, removeProduct, removeModule, moveProduct and resetPlanogram,
\* selectedProduct is null or the id of a product that some module holds, and
\* selectedModule is null or the id of an existing module.
C28_SelectionValid ==
    /\ selectedProduct = NoId \/ selectedProduct \in productIds(modules)
    /\ selectedModule = NoModule \/ selectedModule \in moduleIdsOf(modules)

----------------------------------------------------------------------------
(* Rows with a decimal position *)

decimalRowParsed ==
    /\ ~excelData.null
    /\ Len(file) = 1
    /\ file[1].quantity > 1
    /\ Decimal(file[1].position) > 0

\* C29: a row with a fractional position p and a quantity q >= 2 expands into
\* q records with the positions p, p+0.01, ..., p+(q-1)*0.01, the item codes
\* ean_1 .. ean_q and the row's originalEan, all of them with the group key
\* floor(p), so that their products stack in one column.
C29_DecimalRowStaysInColumn ==
    decimalRowParsed =>
        /\ Len(excelData.items) = file[1].quantity
        /\ \A k \in 1..Len(excelData.items) :
            /\ excelData.items[k].ean = <<file[1].ean, k>>
            /\ excelData.items[k].originalEan = <<file[1].ean, 0>>
            /\ excelData.items[k].position = file[1].position + (k - 1)
            /\ Floor(excelData.items[k].position) = Floor(file[1].position)
        /\ \A p, r \in allProducts(modules) : p.x = r.x

----------------------------------------------------------------------------
(* Smart upload under interleaving *)

\* C30: under every interleaving of removeModule, resetPlanogram and
\* importConfig with the wait for the image, addProductFromExcel still finds
\* the target module: every matched record the smart upload counts as
\* processed has added exactly one product, to module-<record.module>.
C30_ProcessedRecordAddsProduct ==
    [][upload'.processed = upload.processed + 1 =>
        LET moduleId == moduleIdOf(Head(upload.queue).module)
        IN /\ hasModule(modules, moduleId)
           /\ productCount(modules') = productCount(modules) + 1
           /\ \E p \in allProducts(modules') :
                /\ p.id = nextId
                /\ p.moduleId = moduleId
                /\ p.ean = Head(upload.queue).ean]_vars

====
